---- MODULE Spec2Model ----
(***************************************************************************)
(* LCD clock / temperature display (lcd_clock.cpp): the debounced 4x4      *)
(* keypad scanner keypadScan() and the main loop of main(), which          *)
(* interprets key presses (NORMAL / SET / ERROR mode, HOUR / MIN / AM_PM / *)
(* ENTER entry), updates the RTC and schedules LCD refreshes.              *)
(*                                                                         *)
(* One loop iteration is four steps, in the order of the source:           *)
(*   Scan (keypadScan)  ->  KeyPress  ->  TimeUpdate  ->  ScreenUpdate     *)
(* and a fifth, ShowTime, when the screen update shows the time.              *)
(* Time passes in the scanner's sleeps; Tick advances the two mbed Timers. *)
(*                                                                         *)
(* Four specifications:                                                    *)
(*   Spec      the whole program, a user pressing any of four keys         *)
(*   SpecScan  keypadScan alone, any keys of the keypad held down          *)
(*   SpecKeys  the main loop, fed the key presses of a user entering a     *)
(*             time with all sixteen keys in reach                         *)
(*   SpecFree  the main loop, fed any of six keys in any order             *)
(*   SpecLive  the main loop, fed any of four keys, under fairness of the  *)
(*             loop and of time                                            *)
(*   SpecTemp  the main loop and the interrupt of the unit button          *)
(*   SpecLetters  the same, the six keys being * # 1 A P M, until the      *)
(*             clock is set                                                *)
(***************************************************************************)
EXTENDS Integers, Sequences, FiniteSets, TLC

VARIABLES
    pc,               \* position of main's loop: "scan", "key", "time", "lcd",
                      \* "print"
    pressable,        \* environment: the keys the user presses in this run
    tickMs,           \* environment: the milliseconds one Tick stands for
    scripted,         \* environment: the user types what UserTypes describes
    once,             \* environment: the user presses no key once the clock
                      \* has been set
    button,           \* environment: the user presses the unit button
    sensor,           \* environment: the temperature sensor's output, in mV
    row_col,          \* keypadScan: static int row_col[2]
    last_key,         \* keypadScan: static int last_key[2]
    debounceRunning,  \* keypadScan: debounceTimer has been started
    debounceMs,       \* keypadScan: debounceTimer.read_ms(), saturated
    key_map_val,      \* main: char key_map_val
    timerMs,          \* main: timer.read_ms(), saturated
    mode,             \* main: int mode
    entry_mode,       \* main: int entry_mode
    update_LCD,       \* main: bool update_LCD
    index,            \* global int index
    current_entry,    \* global char current_entry[2]
    hr,               \* main: int hr
    min,              \* main: int min
    rtc,              \* the RTC as last written by set_time(mktime(timeinfo))
    toggle,           \* global bool toggle
    temp,             \* main: int temp
    lcd,              \* what the LCD shows
    typed,            \* history: fields typed since '*' in NORMAL mode
    commits,          \* history: number of set_time calls since the last '*'
    valHour,          \* history: the hour as it passed the HOUR check
    valAmPm,          \* history: first letter of the entry that passed AM_PM
    validated,        \* history: the checks passed since the last '*', 'D' or
                      \* set_time, in order, each as <<entry_mode, entry>>
    banners,          \* history: how often the error screen was printed
                      \* since the last '#' in SET_MODE, 2 standing for more
    errElapsed,       \* history: ms since ERROR_MODE was entered, saturated
    recent,           \* history: the keys keypadScan returned less than
                      \* debounce_time ago, each with the ms since then
    heldEvents        \* history: the key presses keypadScan returned in the
                      \* scans since the last one that matched no key or
                      \* another key than its predecessor, 2 standing for more

vars == <<pc, pressable, tickMs, scripted, once, button, sensor, row_col,
          last_key, debounceRunning, debounceMs, key_map_val, timerMs, mode,
          entry_mode, update_LCD, index, current_entry, hr, min, rtc, toggle,
          temp, lcd, typed, commits, valHour, valAmPm, validated, banners,
          errElapsed, recent, heldEvents>>

scanVars == <<row_col, last_key, debounceRunning, debounceMs, key_map_val>>
mainVars == <<timerMs, mode, entry_mode, update_LCD, index, current_entry,
              hr, min, rtc>>
histVars == <<typed, commits, valHour, valAmPm, validated>>
envVars == <<pressable, tickMs, scripted, once, button, sensor>>
dispVars == <<toggle, temp, lcd>>

----------------------------------------------------------------------------
(* Bounds of the model *)

\* granularity of time, in milliseconds per Tick: of the runs that exercise
\* the scanner, and of the runs that exercise the main loop
ScanTickMs == 250
LoopTickMs == 1000
\* how many characters the user types into one field before '#', at most
MaxField == 2
\* how many keys the user holds down at the same time, at most
MaxPressed == 2

----------------------------------------------------------------------------
(* Program constants *)

HOUR == 0
MIN == 1
AM_PM == 2
ENTER == 3

NORMAL_MODE == 0
SET_MODE == 1
ERROR_MODE == 2

debounce_time == 500
RefreshMs == 1000
ErrorMs == 2000

Min2(a, b) == IF a < b THEN a ELSE b

key_map == << <<"1", "2", "3", "A">>,
              <<"4", "5", "6", "P">>,
              <<"7", "8", "9", "M">>,
              <<"*", "0", "#", "D">> >>

Coords == (0..3) \X (0..3)
NoKey == <<-1, -1>>
KeyAt(rc) == key_map[rc[1] + 1][rc[2] + 1]
CoordOf(ch) == CHOOSE rc \in Coords : KeyAt(rc) = ch

Digits == {"0", "1", "2", "3", "4", "5", "6", "7", "8", "9"}

\* the character codes of the keypad characters and of the blank '_'
Ord(ch) ==
    CASE ch = "0" -> 48 [] ch = "1" -> 49 [] ch = "2" -> 50 [] ch = "3" -> 51
      [] ch = "4" -> 52 [] ch = "5" -> 53 [] ch = "6" -> 54 [] ch = "7" -> 55
      [] ch = "8" -> 56 [] ch = "9" -> 57 [] ch = "A" -> 65 [] ch = "D" -> 68
      [] ch = "M" -> 77 [] ch = "P" -> 80 [] ch = "_" -> 95 [] ch = "#" -> 35
      [] ch = "*" -> 42 [] ch = "x" -> 120

Blank == <<"_", "_">>

----------------------------------------------------------------------------
(* keypadScan *)

\* col_scan() while row i is driven low: the first column that reads 0
col_scan(i, P) ==
    LET low == {j \in 0..3 : <<i, j>> \in P}
    IN  IF low = {} THEN -1
        ELSE CHOOSE j \in low : \A k \in low : j <= k

\* the for loop of keypadScan: row_col after it, given the keys held down
RowLoop(P, rc) ==
    LET hit == {i \in 0..3 : col_scan(i, P) > -1}
    IN  IF hit = {} THEN <<rc[1], -1>>
        ELSE LET i == CHOOSE r \in hit : \A q \in hit : r <= q
             IN  <<i, col_scan(i, P)>>

\* a scanner that swallows only a repeat of last_key inside the window
Swallow_And(lk, rc, ms) == lk = rc /\ ms < debounce_time
\* a scanner that never consults the debounce timer
Swallow_SameOnly(lk, rc, ms) == lk = rc
\* a scanner that consults the debounce timer only
Swallow_TimerOnly(lk, rc, ms) == ms < debounce_time
\* the test that swallows a matched key
Swallow(lk, rc, ms) == lk = rc \/ ms < debounce_time

\* keypadScan after its for loop has left rc in row_col
keypadScan(rc) ==
    LET noKeyPressed == rc[2] = -1
    IN  /\ row_col' = rc
        /\ IF noKeyPressed
           THEN /\ last_key' = NoKey
                /\ key_map_val' = "x"
                /\ UNCHANGED <<debounceRunning, debounceMs, recent>>
           ELSE /\ debounceRunning' = TRUE
                /\ IF Swallow(last_key, rc, debounceMs)
                   THEN /\ key_map_val' = "x"
                        /\ UNCHANGED <<last_key, debounceMs, recent>>
                   ELSE /\ last_key' = rc
                        /\ debounceMs' = 0
                        /\ key_map_val' = KeyAt(rc)
                        /\ recent' = {p \in recent : p[1] # rc} \cup {<<rc, 0>>}

\* the sets of at most n keys of the keypad
RECURSIVE HeldSets(_)
HeldSets(n) ==
    IF n = 0 THEN {{}}
    ELSE LET S == HeldSets(n - 1)
         IN  S \cup {s \cup {rc} : s \in S, rc \in Coords}

AllPresses == HeldSets(MaxPressed)

\* what the user can hold down during one scan
Presses == {P \in AllPresses : P \subseteq pressable}

\* what the for loop can leave in row_col
Matches == {RowLoop(P, row_col) : P \in Presses}

Scan ==
    /\ pc = "scan"
    /\ pc' = "key"
    /\ \E rc \in Matches :
          /\ keypadScan(rc)
          /\ heldEvents' =
                IF rc[2] = -1 THEN 0
                ELSE Min2((IF rc = row_col THEN heldEvents ELSE 0)
                             + (IF key_map_val' # "x" THEN 1 ELSE 0), 2)
    /\ UNCHANGED <<envVars, mainVars, dispVars, histVars, banners, errElapsed>>

----------------------------------------------------------------------------
(* Time *)

Tick ==
    /\ pc = "scan"
    /\ debounceMs' = IF debounceRunning
                     THEN Min2(debounceMs + tickMs, debounce_time)
                     ELSE debounceMs
    /\ timerMs' = Min2(timerMs + tickMs, ErrorMs)
    /\ errElapsed' = Min2(errElapsed + tickMs, ErrorMs)
    /\ recent' = {<<p[1], p[2] + tickMs>> :
                     p \in {q \in recent : q[2] + tickMs < debounce_time}}
    /\ UNCHANGED <<pc, envVars, row_col, last_key, debounceRunning,
                   key_map_val, mode, entry_mode, update_LCD, index,
                   current_entry, hr, min, rtc, dispVars, histVars, banners,
                   heldEvents>>

----------------------------------------------------------------------------
(* Key press interpretation *)

\* (current_entry[0] - '0')*10 + (current_entry[1] - '0')
EntryValue(e) == (Ord(e[1]) - Ord("0")) * 10 + (Ord(e[2]) - Ord("0"))

\* an hour check that lets 00 through
HourBad_ZeroOk(h) == h < 0 \/ h > 12
HourBad(h) == h < 1 \/ h > 12
\* a MIN check that refuses nothing
MinBad_None(m) == FALSE
MinBad(m) == m > 59
\* an AM_PM check that looks at the first character only
AmPmBad_FirstOnly(e) == e[1] # "A" /\ e[1] # "P"
AmPmBad(e) == (e[1] # "A" /\ e[1] # "P") \/ e[2] # "M"
\* an AM_PM branch that forgets the 12 hours of the afternoon
AmPmHour_NoAdd(e, h) == h
\* the 24-hour adjustment of the AM_PM branch
AmPmHour(e, h) == IF e[1] = "P" /\ h # 12 THEN h + 12 ELSE h

----------------------------------------------------------------------------
(* The user *)

\* the characters a key press can put into current_entry
Chars == Digits \cup {"A", "P", "M"}

\* the number a user means by the field f: two decimal digits, else -1
Number(f) ==
    IF Len(f) = 2 /\ f[1] \in Digits /\ f[2] \in Digits
    THEN (Ord(f[1]) - 48) * 10 + (Ord(f[2]) - 48)
    ELSE -1

\* A run of key presses after '*' is kept as its fields: the characters
\* pressed between the '#' presses, the last field being the open one.
\* What the user types after '*': up to MaxField characters and '#' for the
\* hour; then, after an hour 01..12, the same for the minute; then, after a
\* minute 00..59, AM or PM and '#'.  The user types nothing after a mistake.
UserTypes(fs) ==
    LET started(i) == Len(fs) > i \/ (Len(fs) = i /\ fs[i] # <<>>)
    IN  /\ Len(fs) >= 1
        /\ Len(fs) <= 4
        /\ \A i \in 1..Len(fs) :
              /\ Len(fs[i]) <= MaxField
              /\ \A j \in 1..Len(fs[i]) : fs[i][j] \in Chars
        /\ started(2) => Number(fs[1]) \in 1..12
        /\ started(3) => Number(fs[2]) \in 0..59
        /\ Len(fs) >= 3 =>
              fs[3] \in {<<>>, <<"A">>, <<"P">>, <<"A", "M">>, <<"P", "M">>}
        /\ Len(fs) = 4 => Len(fs[3]) = 2 /\ fs[4] = <<>>

\* the fields after one more key press
Press(fs, k) ==
    IF k = "#" THEN Append(fs, <<>>)
    ELSE [fs EXCEPT ![Len(fs)] = Append(@, k)]

\* the history of key presses: restarted by '*' in NORMAL_MODE, followed as
\* long as it is something UserTypes describes, and <<>> otherwise
Typed(fs, k, m) ==
    IF k = "*" /\ m = NORMAL_MODE THEN << <<>> >>
    ELSE IF fs # <<>> /\ k \notin {"*", "D"} /\ UserTypes(Press(fs, k))
         THEN Press(fs, k)
    ELSE <<>>

----------------------------------------------------------------------------
(* Key press interpretation, continued *)

\* a '*' that leaves index where it is
PressStar_KeepIndex ==
    /\ mode' = SET_MODE
    /\ entry_mode' = HOUR
    /\ update_LCD' = TRUE
    /\ current_entry' = Blank
    /\ validated' = <<>>
    /\ UNCHANGED <<index, timerMs, hr, min, errElapsed, valHour, valAmPm>>

\* key '*'
PressStar ==
    /\ mode' = SET_MODE
    /\ entry_mode' = HOUR
    /\ update_LCD' = TRUE
    /\ index' = 0
    /\ current_entry' = Blank
    /\ validated' = <<>>
    /\ UNCHANGED <<timerMs, hr, min, errElapsed, valHour, valAmPm>>

\* a 'D' that leaves entry_mode where it is
PressD_KeepEntry ==
    /\ mode' = NORMAL_MODE
    /\ current_entry' = Blank
    /\ validated' = <<>>
    /\ UNCHANGED <<entry_mode, timerMs, update_LCD, index, hr, min,
                   errElapsed, valHour, valAmPm>>

\* key 'D'
PressD ==
    /\ mode' = NORMAL_MODE
    /\ entry_mode' = HOUR
    /\ current_entry' = Blank
    /\ validated' = <<>>
    /\ UNCHANGED <<timerMs, update_LCD, index, hr, min, errElapsed,
                   valHour, valAmPm>>

\* any other key than '#' in SET_MODE
PressChar ==
    /\ current_entry' = [current_entry EXCEPT ![index + 1] = key_map_val]
    /\ index' = IF index = 0 THEN 1 ELSE 0
    /\ update_LCD' = TRUE
    /\ UNCHANGED <<timerMs, mode, entry_mode, hr, min, errElapsed,
                   valHour, valAmPm, validated>>

\* key '#' in SET_MODE
PressEnter ==
    /\ IF entry_mode = HOUR
       THEN LET h == EntryValue(current_entry)
            IN  /\ hr' = h
                /\ min' = min
                /\ IF HourBad(h)
                   THEN /\ timerMs' = 0
                        /\ mode' = ERROR_MODE
                        /\ errElapsed' = 0
                        /\ UNCHANGED <<entry_mode, valHour, validated>>
                   ELSE /\ entry_mode' = entry_mode + 1
                        /\ valHour' = h
                        /\ validated' =
                              Append(validated, <<HOUR, current_entry>>)
                        /\ UNCHANGED <<timerMs, mode, errElapsed>>
                /\ UNCHANGED valAmPm
       ELSE IF entry_mode = MIN
       THEN LET m == EntryValue(current_entry)
            IN  /\ min' = m
                /\ hr' = hr
                /\ IF MinBad(m)
                   THEN /\ timerMs' = 0
                        /\ mode' = ERROR_MODE
                        /\ errElapsed' = 0
                        /\ UNCHANGED <<entry_mode, validated>>
                   ELSE /\ entry_mode' = entry_mode + 1
                        /\ validated' =
                              Append(validated, <<MIN, current_entry>>)
                        /\ UNCHANGED <<timerMs, mode, errElapsed>>
                /\ UNCHANGED <<valHour, valAmPm>>
       ELSE IF entry_mode = AM_PM
       THEN /\ min' = min
            /\ IF AmPmBad(current_entry)
               THEN /\ timerMs' = 0
                    /\ mode' = ERROR_MODE
                    /\ errElapsed' = 0
                    /\ UNCHANGED <<entry_mode, hr, valAmPm, validated>>
               ELSE /\ hr' = AmPmHour(current_entry, hr)
                    /\ entry_mode' = entry_mode + 1
                    /\ valAmPm' = current_entry[1]
                    /\ validated' = Append(validated, <<AM_PM, current_entry>>)
                    /\ UNCHANGED <<timerMs, mode, errElapsed>>
            /\ UNCHANGED valHour
       ELSE UNCHANGED <<timerMs, mode, entry_mode, hr, min, errElapsed,
                        valHour, valAmPm, validated>>
    /\ update_LCD' = TRUE
    /\ current_entry' = Blank
    /\ UNCHANGED index

\* a loop that interprets key presses in ERROR_MODE too
Accepts_InError(k, m) == k # "x"
\* a loop that interprets the 'x' of an idle scan as a key press
Accepts_NoKey(k, m) == m # ERROR_MODE
\* the condition under which a scanned character is interpreted at all
Accepts(k, m) == k # "x" /\ m # ERROR_MODE

KeyPress ==
    /\ pc = "key"
    /\ pc' = "time"
    /\ IF Accepts(key_map_val, mode)
       THEN /\ IF key_map_val = "*" THEN PressStar
               ELSE IF key_map_val = "D" THEN PressD
               ELSE IF mode = SET_MODE
               THEN IF key_map_val # "#" THEN PressChar ELSE PressEnter
               ELSE UNCHANGED <<timerMs, mode, entry_mode, update_LCD, index,
                                current_entry, hr, min, errElapsed,
                                valHour, valAmPm, validated>>
            /\ typed' = Typed(typed, key_map_val, mode)
            /\ commits' = IF key_map_val = "*" THEN 0 ELSE commits
       ELSE UNCHANGED <<timerMs, mode, entry_mode, update_LCD, index,
                        current_entry, hr, min, errElapsed, histVars>>
    /\ banners' = IF /\ Accepts(key_map_val, mode)
                     /\ key_map_val = "#"
                     /\ mode = SET_MODE
                  THEN 0 ELSE banners
    /\ UNCHANGED <<envVars, scanVars, rtc, dispVars, recent, heldEvents>>

----------------------------------------------------------------------------
(* Time update *)

\* mktime() on the broken-down time with tm_hour, tm_min, tm_sec written:
\* out-of-range minutes carry into the hour, the hour wraps into the day
Mktime(h, m, s) ==
    [hour |-> (h + (m \div 60)) % 24, min |-> m % 60, sec |-> s]

\* a time update that does not wait for the AM_PM entry
CommitDue_Early(e) == e >= AM_PM
\* the condition of the time update
CommitDue(e) == e = ENTER

TimeUpdate ==
    /\ pc = "time"
    /\ pc' = "lcd"
    /\ IF CommitDue(entry_mode)
       THEN /\ rtc' = Mktime(hr, min, 0)
            /\ mode' = NORMAL_MODE
            /\ entry_mode' = HOUR
            /\ current_entry' = Blank
            /\ commits' = Min2(commits + 1, 2)
            /\ validated' = <<>>
       ELSE UNCHANGED <<rtc, mode, entry_mode, current_entry, commits,
                        validated>>
    /\ UNCHANGED <<envVars, scanVars, timerMs, update_LCD, index, hr, min,
                   dispVars, typed, valHour, valAmPm, banners, errElapsed,
                   recent, heldEvents>>

----------------------------------------------------------------------------
(* Screen update *)

\* an error screen that lasts as long as one refresh period only
ErrorOver_Early(ms) == ms >= RefreshMs
\* the two tests of the timer
RefreshDue(ms) == ms >= RefreshMs
ErrorOver(ms) == ms >= ErrorMs
\* a second branch that is not for ERROR_MODE
ScreenDue_SetOnly(m, u) == m = SET_MODE /\ u
\* the condition of the second branch
ScreenDue(m, u) == m >= SET_MODE /\ u

\* getTemp(toggle): the sensor's voltage as degrees Celsius (10 mV each),
\* or as degrees Fahrenheit, the conversions to int cutting off fractions
getTemp(tg, mv) ==
    IF tg = 0 THEN mv \div 10 ELSE ((mv * 9) \div 50) + 32

C_F == <<"C", "F">>

\* What a printf to the LCD, after lcd.cls(), shows: the text before the
\* first conversion and the values of the time display.  The two characters
\* that follow a field's name are not kept.
Screen(k, h, m, sc, sfx, t, u) ==
    [text |-> k, hour |-> h, min |-> m, sec |-> sc, suffix |-> sfx,
     temp |-> t, unit |-> u]
NoScreen == Screen("", 0, 0, 0, "", 0, "")

Hour12(h) == IF h % 12 = 0 THEN 12 ELSE h % 12
Suffix(h) == IF h > 12 THEN "PM" ELSE "AM"
TimeScreen(t, tmp, tg) ==
    Screen("", Hour12(t.hour), t.min, t.sec, Suffix(t.hour), tmp, C_F[tg + 1])
SetScreen(m, em) ==
    IF m = ERROR_MODE THEN Screen("---- ERROR! ----", 0, 0, 0, "", 0, "")
    ELSE IF em = HOUR THEN Screen("HOUR:", 0, 0, 0, "", 0, "")
    ELSE IF em = MIN THEN Screen("MIN:", 0, 0, 0, "", 0, "")
    ELSE IF em = AM_PM THEN Screen("AM or PM:", 0, 0, 0, "", 0, "")
    ELSE NoScreen

\* The screen update up to the call of getTemp in its first branch, and the
\* whole of it in the other branches
ScreenUpdate ==
    /\ pc = "lcd"
    /\ IF mode = NORMAL_MODE /\ RefreshDue(timerMs)
       THEN /\ temp' = getTemp(toggle, sensor)
            /\ pc' = "print"
            /\ UNCHANGED <<mode, index, update_LCD, timerMs, lcd, banners>>
       ELSE IF ScreenDue(mode, update_LCD)
       THEN /\ lcd' = SetScreen(mode, entry_mode)
            /\ banners' = IF mode = ERROR_MODE
                          THEN Min2(banners + 1, 2) ELSE banners
            /\ update_LCD' = FALSE
            /\ pc' = "scan"
            /\ UNCHANGED <<mode, index, timerMs, temp>>
       ELSE IF mode = ERROR_MODE /\ ErrorOver(timerMs)
       THEN /\ timerMs' = 0
            /\ mode' = mode - 1
            /\ index' = 0
            /\ update_LCD' = TRUE
            /\ pc' = "scan"
            /\ UNCHANGED <<temp, lcd, banners>>
       ELSE /\ pc' = "scan"
            /\ UNCHANGED <<mode, index, update_LCD, timerMs, temp, lcd,
                           banners>>
    /\ UNCHANGED <<envVars, scanVars, entry_mode, current_entry, hr, min,
                   rtc, toggle, histVars, errElapsed, recent, heldEvents>>

\* the rest of the first branch: the time is read and printed with the
\* temperature and its unit, and the timer is reset
ShowTime ==
    /\ pc = "print"
    /\ pc' = "scan"
    /\ lcd' = TimeScreen(rtc, temp, toggle)
    /\ timerMs' = 0
    /\ UNCHANGED <<envVars, scanVars, mode, entry_mode, update_LCD, index,
                   current_entry, hr, min, rtc, toggle, temp, histVars,
                   banners, errElapsed, recent, heldEvents>>

\* the interrupt handler of the unit button
temp_toggle ==
    /\ button
    /\ toggle' = IF toggle = 0 THEN 1 ELSE 0
    /\ UNCHANGED <<pc, envVars, scanVars, mainVars, temp, lcd, histVars,
                   banners, errElapsed, recent, heldEvents>>

----------------------------------------------------------------------------
(* The program *)

KeysOf(S) == {CoordOf(ch) : ch \in S}

\* the sensor's output at room temperature, 25 degrees Celsius
RoomMv == 250

\* the state at the top of the while loop, first iteration
Boot ==
    /\ pc = "scan"
    /\ row_col = NoKey
    /\ last_key = NoKey
    /\ debounceRunning = FALSE
    /\ debounceMs = 0
    /\ key_map_val = "x"
    /\ timerMs = 0
    /\ mode = NORMAL_MODE
    /\ entry_mode = HOUR
    /\ update_LCD = FALSE
    /\ index = 0
    /\ current_entry = Blank
    /\ hr = 0
    /\ min = 0
    /\ rtc = [hour |-> 0, min |-> 0, sec |-> 0]
    /\ toggle = 0
    /\ temp = getTemp(toggle, sensor)
    /\ lcd = NoScreen
    /\ banners = 0
    /\ typed = <<>>
    /\ commits = 0
    /\ valHour = 0
    /\ valAmPm = "_"
    /\ validated = <<>>
    /\ errElapsed = ErrorMs
    /\ recent = {}
    /\ heldEvents = 0

\* the whole program, with a user who presses any of four keys in any way
Init ==
    /\ pressable = KeysOf({"*", "#", "D", "1"})
    /\ tickMs = LoopTickMs
    /\ scripted = FALSE
    /\ once = FALSE
    /\ button = FALSE
    /\ sensor = RoomMv
    /\ Boot

Next ==
    Tick \/ Scan \/ KeyPress \/ TimeUpdate \/ ScreenUpdate \/ ShowTime

Spec == Init /\ [][Next]_vars

\* keypadScan alone, any keys of the keypad held down: the caller drops
\* what it returns and calls it again
Again ==
    /\ pc = "key"
    /\ pc' = "scan"
    /\ UNCHANGED <<envVars, scanVars, mainVars, dispVars, histVars, banners,
                   errElapsed, recent, heldEvents>>

InitScan ==
    /\ pressable = Coords
    /\ tickMs = ScanTickMs
    /\ scripted = FALSE
    /\ once = FALSE
    /\ button = FALSE
    /\ sensor = RoomMv
    /\ Boot

NextScan == Tick \/ Scan \/ Again

SpecScan == InitScan /\ [][NextScan]_vars


\* The main loop by itself: key_map_val = keypadScan() gives 'x' or the
\* character of a key the user presses.  A scripted user enters a time as
\* UserTypes describes, once; any other user presses any key in reach.
KeyEvent ==
    /\ pc = "scan"
    /\ pc' = "key"
    /\ \E k \in {"x"} \cup {KeyAt(rc) : rc \in pressable} :
          /\ (scripted /\ k # "x") =>
                /\ mode # ERROR_MODE
                /\ Typed(typed, k, mode) # <<>>
                /\ k = "*" => typed = <<>>
          /\ (once /\ k # "x") => commits = 0
          /\ key_map_val' = k
    /\ UNCHANGED <<envVars, row_col, last_key, debounceRunning, debounceMs,
                   mainVars, dispVars, histVars, banners, errElapsed, recent,
                   heldEvents>>

NextKeys ==
    Tick \/ KeyEvent \/ KeyPress \/ TimeUpdate \/ ScreenUpdate \/ ShowTime

\* a user who enters a time, with all sixteen keys in reach
InitKeys ==
    /\ pressable = Coords
    /\ tickMs = LoopTickMs
    /\ scripted = TRUE
    /\ once = FALSE
    /\ button = FALSE
    /\ sensor = RoomMv
    /\ Boot

SpecKeys == InitKeys /\ [][NextKeys]_vars

\* a user who presses any of six keys in any order
InitFree ==
    /\ pressable = KeysOf({"*", "#", "D", "1", "P", "M"})
    /\ tickMs = LoopTickMs
    /\ scripted = FALSE
    /\ once = FALSE
    /\ button = FALSE
    /\ sensor = RoomMv
    /\ Boot

SpecFree == InitFree /\ [][NextKeys]_vars

\* a user who presses any of four keys in any order, a loop that does not
\* stop and a clock that does not stand still: every keypadScan sleeps,
\* 8 ms for each row it drives
InitLive ==
    /\ pressable = KeysOf({"*", "#", "D", "1"})
    /\ tickMs = LoopTickMs
    /\ scripted = FALSE
    /\ once = FALSE
    /\ button = FALSE
    /\ sensor = RoomMv
    /\ Boot

Loop == KeyEvent \/ KeyPress \/ TimeUpdate \/ ScreenUpdate \/ ShowTime

SpecLive == InitLive /\ [][NextKeys]_vars /\ WF_vars(Loop) /\ SF_vars(Tick)

\* The unit button: a user who presses it at any time, and '*' and 'D' too,
\* at one of three temperatures (0, 25 and 100 degrees Celsius)
Readings == {0, RoomMv, 1000}

InitTemp ==
    /\ pressable = KeysOf({"*", "D"})
    /\ tickMs = LoopTickMs
    /\ scripted = FALSE
    /\ once = FALSE
    /\ button = TRUE
    /\ sensor \in Readings
    /\ Boot

NextTemp == NextKeys \/ temp_toggle

SpecTemp == InitTemp /\ [][NextTemp]_vars

\* a user who presses '*', '#', a digit and the three letters in any order
\* until the clock is set
InitLetters ==
    /\ pressable = KeysOf({"*", "#", "1", "A", "P", "M"})
    /\ tickMs = LoopTickMs
    /\ scripted = FALSE
    /\ once = TRUE
    /\ button = FALSE
    /\ sensor = RoomMv
    /\ Boot

SpecLetters == InitLetters /\ [][NextKeys]_vars

----------------------------------------------------------------------------
(* Properties *)

ScanStep == pc = "scan" /\ pc' = "key"
KeyStep == pc = "key" /\ pc' = "time"
Matched(rc) == rc[2] # -1

\* the set_time of the iteration that handled the last '#' is still to come
CommitPending == pc = "time" /\ entry_mode = ENTER

\* C1: after the key presses  * h h # m m # P M #  from NORMAL_MODE, with
\* hh in 01..11 and mm in 00..59, the clock has been set exactly once, to
\* (hh + 12):mm:00, and mode is NORMAL_MODE and entry_mode is HOUR again;
\* no set_time happens before the last '#'.
C1_PmEntrySetsClockOnce ==
    /\ (typed # <<>> /\ Len(typed) < 4) => commits = 0
    /\ (/\ Len(typed) = 4
        /\ typed[3] = <<"P", "M">>
        /\ Number(typed[1]) \in 1..11
        /\ Number(typed[2]) \in 0..59)
       => IF CommitPending THEN commits = 0
          ELSE /\ commits = 1
               /\ rtc = [hour |-> Number(typed[1]) + 12,
                         min |-> Number(typed[2]), sec |-> 0]
               /\ mode = NORMAL_MODE
               /\ entry_mode = HOUR

C1_Witness ==
    /\ typed = << <<"0", "1">>, <<"3", "0">>, <<"P", "M">>, <<>> >>
    /\ pc = "lcd"
    /\ commits = 1
    /\ rtc = [hour |-> 13, min |-> 30, sec |-> 0]
    /\ mode = NORMAL_MODE

\* the 24-hour value of the hour h of a 12-hour clock, ap being "A" or "P"
To24(h, ap) ==
    IF ap = "A" THEN (IF h = 12 THEN 0 ELSE h)
    ELSE (IF h = 12 THEN 12 ELSE h + 12)

\* C2: the hour written to the clock is the 24-hour conversion of the hour
\* that passed the HOUR check, by the AM or PM that passed the AM_PM check
\* (12 AM is 0, 12 PM is 12, 5 PM is 17).
C2_CommitsTo24 ==
    [][(pc = "time" /\ entry_mode = ENTER)
          => rtc'.hour = To24(valHour, valAmPm)]_vars

\* C3: '#' in SET_MODE with entry_mode HOUR moves on to MIN exactly when
\* current_entry holds two decimal digits that read 01..12; any other
\* content gives ERROR_MODE and leaves entry_mode at HOUR.
C3_HourCheck ==
    [][(KeyStep /\ key_map_val = "#" /\ mode = SET_MODE /\ entry_mode = HOUR)
          => IF Number(current_entry) \in 1..12
             THEN mode' = SET_MODE /\ entry_mode' = MIN
             ELSE mode' = ERROR_MODE /\ entry_mode' = HOUR]_vars

C3_Witness ==
    /\ typed = << <<"1", "3">>, <<>> >>
    /\ pc = "time"
    /\ mode = ERROR_MODE
    /\ entry_mode = HOUR

\* C4: '#' in SET_MODE with entry_mode MIN moves on to AM_PM exactly when
\* current_entry holds two decimal digits that read 00..59; any other
\* content gives ERROR_MODE and leaves entry_mode at MIN.
C4_MinuteCheck ==
    [][(KeyStep /\ key_map_val = "#" /\ mode = SET_MODE /\ entry_mode = MIN)
          => IF Number(current_entry) \in 0..59
             THEN mode' = SET_MODE /\ entry_mode' = AM_PM
             ELSE mode' = ERROR_MODE /\ entry_mode' = MIN]_vars

C6_ErrorDwell ==
    [][/\ (mode # ERROR_MODE /\ mode' = ERROR_MODE)
             => /\ KeyStep /\ key_map_val = "#"
                /\ entry_mode' = entry_mode
       /\ (mode = ERROR_MODE /\ mode' = ERROR_MODE)
             => entry_mode' = entry_mode
       /\ (mode = ERROR_MODE /\ mode' # ERROR_MODE)
             => /\ errElapsed >= ErrorMs
                /\ mode' = SET_MODE
                /\ entry_mode' = entry_mode
                /\ index' = 0
                /\ current_entry' = Blank]_vars

C6_Witness ==
    /\ pc = "scan"
    /\ mode = SET_MODE
    /\ entry_mode = MIN
    /\ min > 59
    /\ timerMs = 0
    /\ update_LCD
    /\ index = 0
    /\ current_entry = Blank

\* C7: a key that keypadScan returned is not returned again by a scan less
\* than 500 ms later, held down or released and pressed again.
C7_NoRepeatInWindow ==
    [][(ScanStep /\ key_map_val' # "x")
          => ~ \E p \in recent : p[1] = row_col']_vars

C7_Witness ==
    /\ pc = "key"
    /\ key_map_val = "x"
    /\ last_key = NoKey
    /\ \E p \in recent : p[1] = row_col /\ p[2] > 0

\* C8, as claimed: a scan that matches a key other than last_key returns
\* the character of that key, whatever the debounce timer reads.
C8_OtherKeyAtOnce ==
    [][(ScanStep /\ Matched(row_col') /\ row_col' # last_key)
          => key_map_val' = KeyAt(row_col')]_vars

\* C8, amended: a scan that matches a key other than last_key returns the
\* character of that key if the debounce timer reads 500 ms or more, and
\* 'x' if it reads less.
C8_OtherKeyAfterDebounce ==
    [][(ScanStep /\ Matched(row_col') /\ row_col' # last_key)
          => key_map_val' = IF debounceMs >= debounce_time
                            THEN KeyAt(row_col') ELSE "x"]_vars

C8_Witness ==
    /\ pc = "key"
    /\ last_key = <<0, 0>>
    /\ row_col = <<1, 1>>
    /\ debounceMs > 0
    /\ debounceMs < debounce_time
    /\ key_map_val = "x"

\* C9: a scan with no key held down returns 'x' and sets last_key to none,
\* and the key handling of that iteration leaves mode, entry_mode,
\* current_entry, index, hr and min as they are.
C9_IdleScan ==
    [][/\ (ScanStep /\ ~ Matched(row_col'))
             => key_map_val' = "x" /\ last_key' = NoKey
       /\ (KeyStep /\ key_map_val = "x")
             => UNCHANGED <<mode, entry_mode, current_entry, index, hr, min,
                            rtc>>]_vars

C9_Witness ==
    /\ pc = "time"
    /\ ~ Matched(row_col)
    /\ key_map_val = "x"
    /\ last_key = NoKey
    /\ mode = SET_MODE
    /\ current_entry = <<"1", "_">>
    /\ index = 1

\* C10: '*' in NORMAL_MODE or SET_MODE gives SET_MODE, entry_mode HOUR,
\* current_entry blank, index 0 and update_LCD set, and the clock is not
\* set in that iteration.
C10_StarRestarts ==
    [][/\ (KeyStep /\ key_map_val = "*" /\ mode \in {NORMAL_MODE, SET_MODE})
             => /\ mode' = SET_MODE
                /\ entry_mode' = HOUR
                /\ current_entry' = Blank
                /\ index' = 0
                /\ update_LCD'
                /\ rtc' = rtc
       /\ (pc = "time" /\ key_map_val = "*")
             => rtc' = rtc /\ commits' = commits]_vars

C10_Witness ==
    /\ pc = "time"
    /\ key_map_val = "*"
    /\ typed = <<>>
    /\ mode = SET_MODE
    /\ entry_mode = HOUR
    /\ valHour # 0
    /\ commits = 0

\* C11: 'D' in NORMAL_MODE or SET_MODE, whatever entry_mode and current_entry
\* are, gives NORMAL_MODE, entry_mode HOUR and a blank current_entry, and the
\* clock is not set in that iteration, not even with the hour and the minute
\* already checked.
C11_DAbandons ==
    [][/\ (KeyStep /\ key_map_val = "D" /\ mode \in {NORMAL_MODE, SET_MODE})
             => /\ mode' = NORMAL_MODE
                /\ entry_mode' = HOUR
                /\ current_entry' = Blank
                /\ rtc' = rtc
       /\ (pc = "time" /\ key_map_val = "D")
             => rtc' = rtc /\ commits' = commits]_vars

\* 'D' was pressed with hour 11 and minute 11 checked, and nothing was set
C11_Witness ==
    /\ pc = "lcd"
    /\ key_map_val = "D"
    /\ mode = NORMAL_MODE
    /\ entry_mode = HOUR
    /\ hr = 11
    /\ min = 11
    /\ commits = 0
    /\ rtc = [hour |-> 0, min |-> 0, sec |-> 0]

\* C12: set_time is called only with entry_mode at ENTER, and then the
\* checks passed since the last '*', with no 'D' since, are those of HOUR,
\* of MIN and of AM_PM, in this order; the iteration of a '#' whose check
\* fails does not call set_time.
C12_CommitAfterThreeChecks ==
    [][/\ (rtc' # rtc \/ commits' > commits)
             => /\ pc = "time"
                /\ entry_mode = ENTER
                /\ Len(validated) = 3
                /\ validated[1][1] = HOUR
                /\ validated[2][1] = MIN
                /\ validated[3][1] = AM_PM
       /\ (pc = "time" /\ mode = ERROR_MODE)
             => rtc' = rtc /\ commits' = commits]_vars

\* the clock was set, by the '#' that followed PM
C12_Witness ==
    /\ pc = "lcd"
    /\ key_map_val = "#"
    /\ commits = 1
    /\ rtc = [hour |-> 23, min |-> 11, sec |-> 0]
    /\ validated = <<>>
    /\ mode = NORMAL_MODE

\* C13: '#' in SET_MODE with entry_mode AM_PM moves on to ENTER exactly when
\* current_entry[0] is 'A' or 'P' and current_entry[1] is 'M'; any other
\* content gives ERROR_MODE and leaves entry_mode at AM_PM and hr as it was.
C13_AmPmCheck ==
    [][(KeyStep /\ key_map_val = "#" /\ mode = SET_MODE /\ entry_mode = AM_PM)
          => IF current_entry[1] \in {"A", "P"} /\ current_entry[2] = "M"
             THEN mode' = SET_MODE /\ entry_mode' = ENTER
             ELSE mode' = ERROR_MODE /\ entry_mode' = AM_PM /\ hr' = hr]_vars

\* MA was entered for AM or PM and refused
C13_Witness ==
    /\ pc = "time"
    /\ key_map_val = "#"
    /\ mode = ERROR_MODE
    /\ entry_mode = AM_PM
    /\ validated = << <<HOUR, <<"1", "1">> >>, <<MIN, <<"1", "1">> >> >>
    /\ hr = 11
    /\ errElapsed = 0

\* C14: hr and min hold their initial value or a value that passed its
\* check: a '#' whose HOUR or MIN check fails leaves hr and min as they
\* were before it.
C14_RefusedValueNotStored ==
    [][(/\ KeyStep
        /\ key_map_val = "#"
        /\ mode = SET_MODE
        /\ entry_mode \in {HOUR, MIN}
        /\ mode' = ERROR_MODE)
          => hr' = hr /\ min' = min]_vars

\* C15: whenever a field starts in SET_MODE (by '*', by a '#' that moves
\* entry_mode on to MIN or AM_PM, by the end of ERROR_MODE) current_entry is
\* blank and index is 0, however many characters were typed before.
C15_FieldStartsAtSlot0 ==
    [][(\/ KeyStep /\ key_map_val = "*" /\ mode \in {NORMAL_MODE, SET_MODE}
        \/ KeyStep /\ key_map_val = "#" /\ mode = SET_MODE
               /\ entry_mode' # entry_mode /\ entry_mode' \in {MIN, AM_PM}
        \/ mode = ERROR_MODE /\ mode' = SET_MODE)
          => current_entry' = Blank /\ index' = 0]_vars

\* C16: the time display of NORMAL_MODE shows the hour h of the clock, any
\* of 0..23, as 12 if h mod 12 = 0 and as h mod 12 otherwise, followed by
\* PM if h >= 12 and by AM if h < 12.
C16_TwelveHourDisplay ==
    [][(pc = "print" /\ pc' = "scan")
          => /\ rtc.hour \in 0..23
             /\ lcd'.hour = (IF rtc.hour % 12 = 0 THEN 12 ELSE rtc.hour % 12)
             /\ lcd'.suffix = (IF rtc.hour >= 12 THEN "PM" ELSE "AM")]_vars

\* C17: with the loop running and time passing, ERROR_MODE is always
\* followed by SET_MODE, whatever keys are pressed meanwhile; the error
\* screen is printed once, in the iteration that enters ERROR_MODE, and so
\* before the step down to SET_MODE.
C17_ErrorEnds ==
    /\ (mode = ERROR_MODE) ~> (mode = SET_MODE)
    /\ [](mode = ERROR_MODE /\ pc \in {"scan", "key"} => banners = 1)
    /\ [][/\ (mode # ERROR_MODE /\ mode' = ERROR_MODE)
                => pc = "key" /\ banners' = 0
          /\ (mode = ERROR_MODE /\ pc = "lcd") => banners' = 1
          /\ (mode = ERROR_MODE /\ mode' # ERROR_MODE)
                => banners = 1 /\ mode' = SET_MODE]_vars

\* ERROR_MODE has just ended, 'D' being the last key press of the dwell
C17_Witness ==
    /\ pc = "scan"
    /\ mode = SET_MODE
    /\ entry_mode = AM_PM
    /\ update_LCD
    /\ banners = 1
    /\ lcd = SetScreen(ERROR_MODE, entry_mode)
    /\ errElapsed = ErrorMs
    /\ key_map_val = "D"

\* C18: every set_time writes an hour in 0..23, a minute in 0..59 and
\* second 0.  The hour is the one that passed the HOUR check since the last
\* '*', 'D' or set_time, a value in 1..12, with 12 added at most once; the
\* minute is the one that passed the MIN check since then.
C18_CommitInRange ==
    [][(pc = "time" /\ (rtc' # rtc \/ commits' > commits))
          => /\ hr \in 0..23
             /\ min \in 0..59
             /\ rtc' = [hour |-> hr, min |-> min, sec |-> 0]
             /\ Len(validated) = 3
             /\ EntryValue(validated[1][2]) \in 1..12
             /\ hr \in {EntryValue(validated[1][2]),
                         EntryValue(validated[1][2]) + 12}
             /\ min = EntryValue(validated[2][2])]_vars

\* the clock was set to 11:11 PM, which is on the screen
C18_Witness ==
    /\ pc = "scan"
    /\ commits = 1
    /\ hr = 23
    /\ min = 11
    /\ rtc = [hour |-> 23, min |-> 11, sec |-> 0]
    /\ lcd = TimeScreen(rtc, temp, toggle)

\* C19: with the unit button's interrupt at any point of the loop, a time
\* display shows the temperature with the letter of the unit it was
\* converted to: C with degrees Celsius, F with degrees Fahrenheit.
C19_UnitMatchesValue ==
    lcd.unit # "" =>
        lcd.temp = getTemp(IF lcd.unit = "F" THEN 1 ELSE 0, sensor)

\* C20: as long as every scan matches the same key as the scan before it,
\* keypadScan returns the character of that key at most once, however
\* long the key is held down.
C20_NoAutoRepeat == heldEvents <= 1

\* the key at <<1, 1>> was returned and has been held for 500 ms more
C20_Witness ==
    /\ pc = "key"
    /\ row_col = <<1, 1>>
    /\ last_key = <<1, 1>>
    /\ heldEvents = 1
    /\ debounceMs >= debounce_time
    /\ key_map_val = "x"

====
